---- MODULE Spec2Model ----
(***************************************************************************)
(* Ownership and lifetime model of the gl:: resource layer                 *)
(* (src/include/application.hpp): the handle wrappers (vertex_array,       *)
(* buffer, shader, window), the per-kind registry (resource_manager::proxy)*)
(* with its name generator, and the std::call_once initialization gates.   *)
(***************************************************************************)
EXTENDS Integers, Sequences, FiniteSets, TLC

(***************************************************************************)
(* Bounds of the model.                                                    *)
(***************************************************************************)
NumSlots == 3
MaxHandle == 2
MaxEntries == 2
MaxCounter == 1
NumThreads == 2
MaxRuns == 2
MaxWindows == 2
MaxCalls == 2
MeshMaxHandle == 5
RegMaxHandle == 2

Slots == 1..NumSlots
Handles == 0..MaxHandle

\* The null handle: 0 for GL objects, nullptr for a GLFW window.
Sentinel == 0

WrapperKinds == {"vertex_array", "buffer", "shader", "window"}
AdoptKinds == {"vertex_array", "buffer", "shader"}

VARIABLES
    kind,       \* the wrapper class the run is about
    w,          \* the wrapper objects of the caller: slot -> [live, handle, owning]
    next,       \* number of handles the allocate capability has handed out
    last,       \* the last operation: its operands before the call and its capability calls
    m_record,           \* proxy::m_record: name -> wrapper
    m_recently_used,    \* proxy::m_recently_used ("" when none)
    counter,            \* the g_*_ct counter of the registry's kind
    rlast,              \* the last registry call: its arguments, its results, its capability calls
    once,               \* the std::once_flag of each gate: "unset", "active" or "done"
    pc,                 \* where each thread is in its call of application() or new_window()
    out,                \* how each thread's latest call of each gate ended
    owed,               \* per gate, the threads that awaited an execution that failed
    runs,               \* per gate, the number of executions of the setup routine
    g_resource_manager, \* states::g_resource_manager: 0 (null) or the identity of the store
    windows,            \* number of entries of the store's windows registry
    seen,               \* the store each thread emplaced its window into
    g_application_created,
    glfwUp,             \* GLFW is initialised (glfw::init succeeded, no glfw::terminate since)
    issued,             \* the names the generator has returned for colliding hints
    g_ct,               \* the counters g_*_ct of all kinds, by kind
    klast,              \* the last call of a registry's m_next_name: kind, hint, result
    rpc,                \* where application::run() is: "idle" outside it
    todo,               \* the entries the range-for of run() has still to visit
    dead_windows,       \* the queue dead_windows of run()
    m_running,          \* application::m_running
    should_close,       \* the window handles whose GLFW close flag is set
    startups,           \* number of calls of startup()
    shutdowns,          \* number of calls of shutdown()
    m_mesh,             \* a mesh object: its members m_array, m_vertices, m_indices
    mlast               \* the last operation on the mesh: mask, operands before, capability calls

wrapVars == <<w, last>>

regVars == <<m_record, m_recently_used, counter, rlast>>

gateVars == <<once, pc, out, owed, runs, g_resource_manager, windows, seen,
              g_application_created, glfwUp>>

vars == <<kind, next, w, last, m_record, m_recently_used, counter, rlast, once, pc, out,
          owed, runs, g_resource_manager, windows, seen, g_application_created, glfwUp,
          issued, g_ct, klast, rpc, todo, dead_windows, m_running, should_close,
          startups, shutdowns, m_mesh, mlast>>

\* What the operations of one component leave alone.
kindVars == <<g_ct, klast>>

runVars == <<rpc, todo, dead_windows, m_running, should_close, startups, shutdowns>>

meshVars == <<m_mesh, mlast>>

nonWrapVars == <<regVars, gateVars, issued, kindVars, runVars, meshVars>>

nonRegVars == <<wrapVars, gateVars, issued, kindVars, runVars, meshVars>>

nonGateVars == <<kind, next, wrapVars, regVars, issued, kindVars, runVars, meshVars>>

nonNameVars == <<wrapVars, gateVars, m_recently_used, kindVars, runVars, meshVars>>

nonRunVars == <<wrapVars, gateVars, issued, kindVars, meshVars>>

nonKindVars == <<kind, next, wrapVars, regVars, gateVars, issued, runVars, meshVars>>

Dead == [live |-> FALSE, handle |-> Sentinel, owning |-> FALSE]

Wrapper(h, o) == [live |-> TRUE, handle |-> h, owning |-> o]

NoOp == [op |-> "none", dst |-> 0, src |-> 0, pre |-> Dead, preSrc |-> Dead,
         arg |-> 0, flag |-> FALSE, frees |-> <<>>, allocs |-> 0]

(***************************************************************************)
(* The wrapper classes as functions of the operands.  Each yields the      *)
(* wrapper(s) after the call, the handles passed to the free capability    *)
(* (in call order) and the number of calls of the allocate capability.     *)
(* The n-th call of the allocate capability returns handle n.              *)
(***************************************************************************)

\* vertex_array(), buffer(type), shader(), window(spec)
Fresh(k, n) ==
    CASE k = "vertex_array" -> [obj |-> Wrapper(n + 1, TRUE), allocs |-> 1]
      [] k = "buffer"       -> [obj |-> Wrapper(n + 2, TRUE), allocs |-> 2]
      [] k = "shader"       -> [obj |-> Wrapper(Sentinel, TRUE), allocs |-> 0]
      [] k = "window"       -> [obj |-> Wrapper(n + 1, TRUE), allocs |-> 1]
      [] k = "texture"      -> [obj |-> Wrapper(Sentinel, FALSE), allocs |-> 0]

\* A constructor that takes ownership whatever the caller asked for.
AdoptOwningAlways(k, h, flag) == TRUE

\* m_owning as the adopting constructors initialise it.
AdoptOwning(k, h, flag) ==
    CASE k = "vertex_array" -> (flag \/ h = Sentinel)
      [] k = "buffer"       -> (flag \/ h = Sentinel)
      [] k = "shader"       -> IF h # Sentinel /\ ~flag THEN FALSE ELSE flag

\* vertex_array(object, owning), buffer(object, type, owning),
\* shader(program, 0, 0, 0, owning)
Adopt(k, h, flag, n) ==
    [obj |-> Wrapper(IF h = Sentinel THEN n + 1 ELSE h, AdoptOwning(k, h, flag)),
     allocs |-> IF h = Sentinel THEN 1 ELSE 0]

\* A move constructor that copies and leaves the source as it was.
MoveCtorCopy(k, s) == [obj |-> s, src |-> s]

\* T(T&& other): the new object and what is left in other.  texture has
\* the implicit constructor, a copy.
MoveCtor(k, s) ==
    [obj |-> Wrapper(s.handle, s.owning),
     src |-> CASE k = "window" -> Wrapper(Sentinel, FALSE)
               [] k = "texture" -> s
               [] OTHER -> Wrapper(s.handle, FALSE)]

\* T& operator=(T&& other) on two distinct objects d (this) and s (other).
MoveAssign(k, d, s) ==
    CASE k \in {"vertex_array", "buffer"} ->
            IF d.handle = s.handle
            THEN [obj |-> d, src |-> s, frees |-> <<>>]
            ELSE [obj |-> Wrapper(s.handle, s.owning),
                  src |-> Wrapper(s.handle, FALSE),
                  frees |-> IF d.owning THEN <<d.handle>> ELSE <<>>]
      [] k = "shader" ->
            IF d.handle = s.handle
            THEN [obj |-> d, src |-> s, frees |-> <<>>]
            ELSE [obj |-> Wrapper(s.handle, d.owning),
                  src |-> Wrapper(s.handle, FALSE),
                  frees |-> IF d.handle # Sentinel THEN <<d.handle>> ELSE <<>>]
      [] k = "window" ->
            [obj |-> Wrapper(s.handle, s.owning),
             src |-> Wrapper(Sentinel, FALSE),
             frees |-> <<>>]
      [] k = "texture" ->
            [obj |-> s, src |-> s, frees |-> <<>>]

\* x = std::move(x): this and other are the same object.
SelfAssign(k, d) ==
    IF k = "window" THEN [obj |-> Wrapper(Sentinel, FALSE), frees |-> <<>>]
                    ELSE [obj |-> d, frees |-> <<>>]

\* vertex_array::clear, buffer::clear, shader::clear
Clear(k, d) ==
    CASE k \in {"vertex_array", "buffer"} ->
            [obj |-> Wrapper(d.handle, FALSE),
             frees |-> IF d.owning THEN <<d.handle>> ELSE <<>>]
      [] k = "shader" ->
            IF d.handle # Sentinel /\ d.owning
            THEN [obj |-> Wrapper(Sentinel, FALSE), frees |-> <<d.handle>>]
            ELSE [obj |-> Wrapper(Sentinel, d.owning), frees |-> <<>>]

\* A destructor that frees the handle whether it owns it or not.
DestroyAlways(k, d) == <<d.handle>>

\* ~vertex_array, ~buffer (both call clear), ~shader, ~window:
\* the handles passed to the free capability.
Destroy(k, d) ==
    CASE k \in {"vertex_array", "buffer"} -> Clear(k, d).frees
      [] k \in {"shader", "window"} -> IF d.owning THEN <<d.handle>> ELSE <<>>
      [] k = "texture" -> <<>>

(***************************************************************************)
(* Names.  A string is a sequence of tokens: a letter, a decimal digit, or *)
(* Prefix, which stands for the kind's prefix string ("generated-bo-", ...).*)
(***************************************************************************)
Prefix == "#"

EmptyName == <<>>

Digits == <<"0", "1", "2", "3", "4", "5", "6", "7", "8", "9">>

\* operator<<(std::ostream&, int) for a non-negative value
RECURSIVE Dec(_)
Dec(n) == IF n < 10 THEN <<Digits[n + 1]>>
                    ELSE Dec(n \div 10) \o <<Digits[(n % 10) + 1]>>

\* The names callers pass as hints: the empty string and a plain name.
Hints == {EmptyName, <<"a">>}

NoRecord == [n \in {} |-> Dead]

\* The kinds of resource that have a registry and a name generator.
AllKinds == {"buffer", "camera", "mesh", "shader", "texture", "vertex_array", "window"}

\* The counters at program start, no registry having asked for a name.
KindIdle ==
    /\ g_ct = [k \in AllKinds |-> 0]
    /\ klast = [kind |-> "none", hint |-> EmptyName, collides |-> FALSE,
                ret |-> EmptyName]

\* The state of the registry variables while the registry is not in use.
RegIdle ==
    /\ m_record = NoRecord
    /\ m_recently_used = EmptyName
    /\ counter = 0
    /\ issued = {}
    /\ KindIdle
    /\ rlast = [op |-> "none", name |-> EmptyName, arg |-> EmptyName, ret |-> EmptyName,
                ok |-> TRUE, frees |-> <<>>, allocs |-> 0, obj |-> Dead, pre |-> Dead,
                undo |-> FALSE, err |-> "none", resrc |-> Sentinel]

(***************************************************************************)
(* The initialization gates of namespace states and their call sites.      *)
(***************************************************************************)
Threads == 1..NumThreads

Gates == {"glfw", "resource", "glew"}

Sites == {"application", "new_window"}

Idle == [site |-> "none", stage |-> "idle", phase |-> "-"]

\* The state of the gates before any thread has called anything.
GateIdle ==
    /\ once = [g \in Gates |-> "unset"]
    /\ pc = [t \in Threads |-> Idle]
    /\ out = [t \in Threads |-> [g \in Gates |-> "none"]]
    /\ owed = [g \in Gates |-> {}]
    /\ runs = [g \in Gates |-> 0]
    /\ g_resource_manager = 0
    /\ windows = 0
    /\ seen = [t \in Threads |-> 0]
    /\ g_application_created = FALSE
    /\ glfwUp = FALSE

\* No mesh object.
NoMesh == [live |-> FALSE, m_array |-> Dead, m_vertices |-> Dead, m_indices |-> Dead]

MeshNoOp == [op |-> "none", mask |-> 0, pre |-> <<Dead, Dead, Dead>>,
             frees |-> <<>>, allocs |-> 0]

MeshIdle ==
    /\ m_mesh = NoMesh
    /\ mlast = MeshNoOp

\* application::run() has not been called and no window has a close request.
RunIdle ==
    /\ rpc = "idle"
    /\ todo = {}
    /\ dead_windows = <<>>
    /\ m_running = TRUE
    /\ should_close = {}
    /\ startups = 0
    /\ shutdowns = 0

(***************************************************************************)
(* The caller's operations on its wrapper objects.                         *)
(***************************************************************************)

\* The caller obtains a raw handle from the capability (gl::generate_buffer(),
\* gl::generate_vertex_array(), gl::create_program()) without wrapping it.
RawAllocate ==
    /\ kind \in AdoptKinds
    /\ next < MaxHandle
    /\ next' = next + 1
    /\ last' = [NoOp EXCEPT !.op = "raw", !.allocs = 1]
    /\ UNCHANGED <<kind, w, nonWrapVars>>

\* A new object takes the first unused slot (which slot is immaterial).
NewSlot(i) == ~w[i].live /\ \A j \in Slots : j < i => w[j].live

ConstructFresh(i) ==
    /\ NewSlot(i)
    /\ LET r == Fresh(kind, next) IN
        /\ next + r.allocs <= MaxHandle
        /\ w' = [w EXCEPT ![i] = r.obj]
        /\ next' = next + r.allocs
        /\ last' = [NoOp EXCEPT !.op = "fresh", !.dst = i, !.allocs = r.allocs]
    /\ UNCHANGED <<kind, nonWrapVars>>

ConstructAdopt(i, h, flag) ==
    /\ kind \in AdoptKinds
    /\ NewSlot(i)
    /\ h <= next
    /\ LET r == Adopt(kind, h, flag, next) IN
        /\ next + r.allocs <= MaxHandle
        /\ w' = [w EXCEPT ![i] = r.obj]
        /\ next' = next + r.allocs
        /\ last' = [NoOp EXCEPT !.op = "adopt", !.dst = i, !.arg = h, !.flag = flag,
                                !.allocs = r.allocs]
    /\ UNCHANGED <<kind, nonWrapVars>>

MoveConstruct(i, j) ==
    /\ NewSlot(i)
    /\ w[j].live
    /\ LET r == MoveCtor(kind, w[j]) IN
        /\ w' = [w EXCEPT ![i] = r.obj, ![j] = r.src]
        /\ last' = [NoOp EXCEPT !.op = "move_ctor", !.dst = i, !.src = j,
                                !.preSrc = w[j]]
    /\ UNCHANGED <<kind, next, nonWrapVars>>

MoveAssignment(i, j) ==
    /\ w[i].live
    /\ w[j].live
    /\ IF i = j
       THEN LET r == SelfAssign(kind, w[i]) IN
            /\ w' = [w EXCEPT ![i] = r.obj]
            /\ last' = [NoOp EXCEPT !.op = "move_assign", !.dst = i, !.src = j,
                                    !.pre = w[i], !.preSrc = w[j], !.frees = r.frees]
       ELSE LET r == MoveAssign(kind, w[i], w[j]) IN
            /\ w' = [w EXCEPT ![i] = r.obj, ![j] = r.src]
            /\ last' = [NoOp EXCEPT !.op = "move_assign", !.dst = i, !.src = j,
                                    !.pre = w[i], !.preSrc = w[j], !.frees = r.frees]
    /\ UNCHANGED <<kind, next, nonWrapVars>>

Release(i) ==
    /\ kind \in AdoptKinds
    /\ w[i].live
    /\ LET r == Clear(kind, w[i]) IN
        /\ w' = [w EXCEPT ![i] = r.obj]
        /\ last' = [NoOp EXCEPT !.op = "clear", !.dst = i, !.pre = w[i],
                                !.frees = r.frees]
    /\ UNCHANGED <<kind, next, nonWrapVars>>

Destruct(i) ==
    /\ w[i].live
    /\ w' = [w EXCEPT ![i] = Dead]
    /\ last' = [NoOp EXCEPT !.op = "destroy", !.dst = i, !.pre = w[i],
                            !.frees = Destroy(kind, w[i])]
    /\ UNCHANGED <<kind, next, nonWrapVars>>

WrapIdle ==
    /\ w = [i \in Slots |-> Dead]
    /\ last = NoOp

WrapInit ==
    /\ kind \in WrapperKinds
    /\ next = 0
    /\ WrapIdle
    /\ RegIdle
    /\ GateIdle
    /\ RunIdle
    /\ MeshIdle

WrapNext ==
    \/ RawAllocate
    \/ \E i \in Slots : ConstructFresh(i)
    \/ \E i \in Slots, h \in Handles, flag \in BOOLEAN : ConstructAdopt(i, h, flag)
    \/ \E i, j \in Slots : MoveConstruct(i, j)
    \/ \E i, j \in Slots : MoveAssignment(i, j)
    \/ \E i \in Slots : Release(i)
    \/ \E i \in Slots : Destruct(i)

SpecWrap == WrapInit /\ [][WrapNext]_vars

(***************************************************************************)
(* The name generator, states::next_name.                                  *)
(***************************************************************************)

\* A loop that returns its first candidate without looking it up.
NameLoopNoCheck(rec, hint, ss, c) ==
    [name |-> ss \o hint \o <<Prefix>> \o Dec(c), counter |-> c + 1]

\* The while loop: ss accumulates what every attempt streams into it.
RECURSIVE NameLoop(_, _, _, _)
NameLoop(rec, hint, ss, c) ==
    LET name == ss \o hint \o <<Prefix>> \o Dec(c) IN
    IF name \notin DOMAIN rec
    THEN [name |-> name, counter |-> c + 1]
    ELSE NameLoop(rec, hint, name, c + 1)

\* A generator that generates a name whether the hint is free or not.
next_nameAlways(rec, hint, c) == NameLoop(rec, hint, <<>>, c)

\* A generator that works on a copy of the counter.
next_nameByValue(rec, hint, c) ==
    IF hint \notin DOMAIN rec
    THEN [name |-> hint, counter |-> c]
    ELSE [name |-> NameLoop(rec, hint, <<>>, c).name, counter |-> c]

\* A generator that adopts every hint, taken or not.
next_nameEcho(rec, hint, c) == [name |-> hint, counter |-> c]

\* The generated name and the counter after the call.
next_name(rec, hint, c) ==
    IF hint \notin DOMAIN rec
    THEN [name |-> hint, counter |-> c]
    ELSE NameLoop(rec, hint, <<>>, c)

(***************************************************************************)
(* The registry, resource_manager::proxy<Resrc>, for Resrc one of          *)
(* vertex_array, buffer, shader, texture.  A texture is a plain copyable    *)
(* value with no capability call: here a wrapper that owns nothing.        *)
(***************************************************************************)
RegKinds == {"vertex_array", "buffer", "shader", "texture"}

\* std::unordered_map::insert of a key that is absent / operator[] assignment
Insert(rec, name, obj) ==
    [n \in DOMAIN rec \cup {name} |-> IF n = name THEN obj ELSE rec[n]]

\* An erase that empties the map.
EraseAll(rec, name) == [n \in {} |-> rec[n]]

\* std::unordered_map::erase
Erase(rec, name) == [n \in DOMAIN rec \ {name} |-> rec[n]]

\* The names a caller passes.
ArgNames == Hints \cup DOMAIN m_record

\* pre is the caller's object before a record, obj the caller's object after
\* it or the object a retrieve returns; undo tells that a retrieve took back
\* the entry that the call before it had recorded; err is the failure of a
\* call that threw; resrc is the handle a find looks for.
RLast(op, name, arg, ret, ok, frees, allocs) ==
    [op |-> op, name |-> name, arg |-> arg, ret |-> ret, ok |-> ok,
     frees |-> frees, allocs |-> allocs, obj |-> Dead, pre |-> Dead, undo |-> FALSE,
     err |-> "none", resrc |-> Sentinel]

\* The failures of a call: what LOG.exception logs before it throws, or the
\* exception std::unordered_map::at throws.
NoSuchResource == "No such resource"

IndexOutOfRange == "Index out of range"

NoResources == "No resources"

OutOfRange == "std::out_of_range"

\* A record that stores the object under the hint itself.
RecordIntoUnderHint(rec, obj, hint, c) ==
    LET mv == MoveCtor(kind, obj)
    IN [name |-> hint, counter |-> c,
        rec |-> Insert(rec, hint, mv.obj),
        left |-> [mv.src EXCEPT !.owning = FALSE]]

\* A record that stores a view and leaves the ownership with the caller.
RecordIntoView(rec, obj, hint, c) ==
    LET nn == next_name(rec, hint, c)
    IN [name |-> nn.name, counter |-> nn.counter,
        rec |-> Insert(rec, nn.name, Wrapper(obj.handle, FALSE)),
        left |-> obj]

\* record(object, name): the adopted name, the entry inserted, what is left
\* in the caller's object, the counter.
RecordInto(rec, obj, hint, c) ==
    LET nn == next_name(rec, hint, c)
        mv == MoveCtor(kind, obj)
    IN [name |-> nn.name, counter |-> nn.counter,
        rec |-> Insert(rec, nn.name, mv.obj),
        left |-> [mv.src EXCEPT !.owning = FALSE]]

\* The caller obtains a handle from the capability, to wrap it in a
\* standalone object Resrc(handle, owning).
CallerAllocate ==
    /\ kind # "texture"
    /\ next < RegMaxHandle
    /\ next' = next + 1
    /\ rlast' = RLast("allocate", EmptyName, EmptyName, EmptyName, TRUE, <<>>, 1)
    /\ UNCHANGED <<kind, m_record, m_recently_used, counter, nonRegVars>>

\* The standalone objects a caller can hold: wrappers of allocated handles.
Standalone ==
    IF kind = "texture" THEN {Wrapper(Sentinel, FALSE)}
                        ELSE {Wrapper(h, o) : h \in 1..next, o \in BOOLEAN}

\* emplace(name): Resrc() is built, recorded, and the local goes out of scope.
Emplace(hint) ==
    /\ Cardinality(DOMAIN m_record) < MaxEntries
    /\ LET f == Fresh(kind, next)
           r == RecordInto(m_record, f.obj, hint, counter)
       IN
        /\ next + f.allocs <= RegMaxHandle
        /\ r.counter <= MaxCounter
        /\ m_record' = r.rec
        /\ m_recently_used' = r.name
        /\ counter' = r.counter
        /\ next' = next + f.allocs
        /\ rlast' = RLast("emplace", hint, EmptyName, r.name, TRUE,
                          Destroy(kind, r.left), f.allocs)
    /\ UNCHANGED <<kind, nonRegVars>>

\* record(object, name) on a standalone object of the caller; obj is what
\* the call leaves in the caller's object.
Record(object, hint) ==
    /\ Cardinality(DOMAIN m_record) < MaxEntries
    /\ LET r == RecordInto(m_record, object, hint, counter) IN
        /\ r.counter <= MaxCounter
        /\ m_record' = r.rec
        /\ m_recently_used' = r.name
        /\ counter' = r.counter
        /\ rlast' = [RLast("record", hint, EmptyName, r.name, TRUE, <<>>, 0)
                        EXCEPT !.obj = r.left, !.pre = object]
    /\ UNCHANGED <<kind, next, nonRegVars>>

\* A lookup that inserts a default-constructed entry under a missing name,
\* as m_record[name] would.
GetByNameDefaulting(name) ==
    /\ LET f == Fresh(kind, next) IN
        /\ m_record' = IF name \in DOMAIN m_record THEN m_record
                                                   ELSE Insert(m_record, name, f.obj)
        /\ next' = IF name \in DOMAIN m_record THEN next ELSE next + f.allocs
    /\ m_recently_used' = name
    /\ rlast' = RLast("get", name, EmptyName, name, TRUE, <<>>, 0)
    /\ UNCHANGED <<kind, counter, nonRegVars>>

\* operator[](std::string name)
GetByName(name) ==
    /\ IF name \notin DOMAIN m_record
       THEN /\ rlast' = [RLast("get", name, EmptyName, EmptyName, FALSE, <<>>, 0)
                            EXCEPT !.err = NoSuchResource]
            /\ UNCHANGED m_recently_used
       ELSE /\ m_recently_used' = name
            /\ rlast' = RLast("get", name, EmptyName, name, TRUE, <<>>, 0)
    /\ UNCHANGED <<kind, next, m_record, counter, nonRegVars>>

\* operator[](gl::u32 idx): the idx-th entry of the map's iteration order,
\* which is any entry.
GetByIndex(idx) ==
    /\ IF idx >= Cardinality(DOMAIN m_record)
       THEN /\ rlast' = [RLast("index", EmptyName, EmptyName, EmptyName, FALSE, <<>>, 0)
                            EXCEPT !.err = IndexOutOfRange]
            /\ UNCHANGED m_recently_used
       ELSE \E n \in DOMAIN m_record :
            /\ m_recently_used' = n
            /\ rlast' = RLast("index", EmptyName, EmptyName, n, TRUE, <<>>, 0)
    /\ UNCHANGED <<kind, next, m_record, counter, nonRegVars>>

\* A scan that takes the first entry it visits for a match.
ScanAny(op, h) ==
    /\ IF m_record = NoRecord
       THEN /\ rlast' = [RLast(op, EmptyName, EmptyName, EmptyName, FALSE, <<>>, 0)
                            EXCEPT !.resrc = h]
            /\ UNCHANGED m_recently_used
       ELSE \E n \in DOMAIN m_record :
            /\ m_recently_used' = n
            /\ rlast' = [RLast(op, EmptyName, EmptyName, n, TRUE, <<>>, 0)
                            EXCEPT !.resrc = h]
    /\ UNCHANGED <<kind, next, m_record, counter, nonRegVars>>

\* The scan of find: the first match in iteration order is any match; the
\* matched entry becomes the recently used one.
Scan(op, h) ==
    LET hits == {n \in DOMAIN m_record : m_record[n].handle = h} IN
    /\ IF hits = {}
       THEN /\ rlast' = [RLast(op, EmptyName, EmptyName, EmptyName, FALSE, <<>>, 0)
                            EXCEPT !.resrc = h]
            /\ UNCHANGED m_recently_used
       ELSE \E n \in hits :
            /\ m_recently_used' = n
            /\ rlast' = [RLast(op, EmptyName, EmptyName, n, TRUE, <<>>, 0)
                            EXCEPT !.resrc = h]
    /\ UNCHANGED <<kind, next, m_record, counter, nonRegVars>>

\* find(gl::u32 resrc); texture has no is_wrapper_of.
Find(h) ==
    /\ kind # "texture"
    /\ Scan("find", h)

\* find(Resrc& object): obj == object compares the handles
FindValue(object) == Scan("find_value", object.handle)

\* recent()
Recent ==
    /\ IF m_recently_used = EmptyName
       THEN IF m_record = NoRecord
            THEN /\ rlast' = [RLast("recent", EmptyName, EmptyName, EmptyName, FALSE,
                                    <<>>, 0) EXCEPT !.err = NoResources]
                 /\ UNCHANGED m_recently_used
            ELSE \E n \in DOMAIN m_record :
                 /\ m_recently_used' = n
                 /\ rlast' = RLast("recent", EmptyName, EmptyName, n, TRUE, <<>>, 0)
       ELSE /\ rlast' = [RLast("recent", EmptyName, EmptyName, m_recently_used,
                               m_recently_used \in DOMAIN m_record, <<>>, 0)
                            EXCEPT !.err = IF m_recently_used \in DOMAIN m_record
                                           THEN "none" ELSE OutOfRange]
            /\ UNCHANGED m_recently_used
    /\ UNCHANGED <<kind, next, m_record, counter, nonRegVars>>

\* A removal that leaves the recently used name as it was.
RecentAfterEraseKept(recent, name) == recent

\* if (m_recently_used == name) { m_recently_used = ""; }
RecentAfterErase(recent, name) == IF recent = name THEN EmptyName ELSE recent

\* remove(name)
Remove(name) ==
    /\ m_record' = Erase(m_record, name)
    /\ m_recently_used' = RecentAfterErase(m_recently_used, name)
    /\ rlast' = RLast("remove", name, EmptyName, EmptyName, TRUE,
                      IF name \in DOMAIN m_record THEN Destroy(kind, m_record[name])
                                                  ELSE <<>>, 0)
    /\ UNCHANGED <<kind, next, counter, nonRegVars>>

\* m_record[new_name] = m_record[old_name]; m_record.erase(old_name);
\* with old_name present: the map, the handles freed, the allocations.
RenameEntries(rec, old, new, n) ==
    IF old = new
    THEN LET a == SelfAssign(kind, rec[old]) IN
         [rec |-> Erase(rec, old), frees |-> a.frees \o Destroy(kind, a.obj),
          allocs |-> 0]
    ELSE LET f == Fresh(kind, n)
             present == new \in DOMAIN rec
             a == MoveAssign(kind, IF present THEN rec[new] ELSE f.obj, rec[old])
         IN [rec |-> Erase(Insert(rec, new, a.obj), old),
             frees |-> a.frees \o Destroy(kind, a.src),
             allocs |-> IF present THEN 0 ELSE f.allocs]

\* rename(old_name, new_name)
Rename(old, new) ==
    /\ IF old \notin DOMAIN m_record
       THEN /\ rlast' = RLast("rename", old, new, EmptyName, FALSE, <<>>, 0)
            /\ UNCHANGED <<m_record, m_recently_used, next>>
       ELSE LET r == RenameEntries(m_record, old, new, next) IN
            /\ next + r.allocs <= RegMaxHandle
            /\ m_record' = r.rec
            /\ next' = next + r.allocs
            /\ m_recently_used' = IF m_recently_used = old THEN new ELSE m_recently_used
            /\ rlast' = RLast("rename", old, new, EmptyName, TRUE, r.frees, r.allocs)
    /\ UNCHANGED <<kind, counter, nonRegVars>>

\* retrieve(name); obj is the object returned to the caller.
Retrieve(name) ==
    /\ IF name \notin DOMAIN m_record
       THEN /\ rlast' = [RLast("retrieve", name, EmptyName, EmptyName, FALSE, <<>>, 0)
                            EXCEPT !.err = NoSuchResource]
            /\ UNCHANGED <<m_record, m_recently_used>>
       ELSE LET mv == MoveCtor(kind, m_record[name]) IN
            /\ m_record' = Erase(m_record, name)
            /\ m_recently_used' = RecentAfterErase(m_recently_used, name)
            /\ rlast' = [RLast("retrieve", name, EmptyName, name, TRUE,
                               Destroy(kind, mv.src), 0)
                            EXCEPT !.obj = mv.obj,
                                   !.undo = (rlast.op = "record" /\ rlast.ret = name)]
    /\ UNCHANGED <<kind, next, counter, nonRegVars>>

RegInit ==
    /\ kind \in RegKinds
    /\ next = 0
    /\ RegIdle
    /\ WrapIdle
    /\ GateIdle
    /\ RunIdle
    /\ MeshIdle

RegNext ==
    \/ CallerAllocate
    \/ \E hint \in Hints : Emplace(hint)
    \/ \E object \in Standalone, hint \in Hints : Record(object, hint)
    \/ \E name \in ArgNames : GetByName(name)
    \/ \E idx \in 0..MaxEntries : GetByIndex(idx)
    \/ \E h \in 0..RegMaxHandle : Find(h)
    \/ \E h \in 0..RegMaxHandle : FindValue(Wrapper(h, FALSE))
    \/ Recent
    \/ \E name \in ArgNames : Remove(name)
    \/ \E old, new \in ArgNames : Rename(old, new)
    \/ \E name \in ArgNames : Retrieve(name)

SpecReg == RegInit /\ [][RegNext]_vars

\* Only emplace, record and remove are called (and the caller allocates the
\* handles of the objects it records).
ERRNext ==
    \/ CallerAllocate
    \/ \E hint \in Hints : Emplace(hint)
    \/ \E object \in Standalone, hint \in Hints : Record(object, hint)
    \/ \E name \in ArgNames : Remove(name)

SpecERR == RegInit /\ [][ERRNext]_vars

\* The calls that move a resource into or out of the registry.
XferNext ==
    \/ CallerAllocate
    \/ \E hint \in Hints : Emplace(hint)
    \/ \E object \in Standalone, hint \in Hints : Record(object, hint)
    \/ \E name \in ArgNames : Remove(name)
    \/ \E name \in ArgNames : Retrieve(name)

SpecXfer == RegInit /\ [][XferNext]_vars

\* A teardown that drops the entries without destroying them.
TeardownFreesLeak(rec, order) == <<>>

\* The handles freed when the entries of the map are destroyed in the order
\* given: the calls of the entries' destructors, one after the other.
RECURSIVE TeardownFrees(_, _)
TeardownFrees(rec, order) ==
    IF order = <<>> THEN <<>>
    ELSE Destroy(kind, rec[Head(order)]) \o TeardownFrees(rec, Tail(order))

\* The orders in which a map with these keys can be traversed.
Orders(keys) ==
    {o \in [1..Cardinality(keys) -> keys] : \A i, j \in DOMAIN o : i # j => o[i] # o[j]}

\* The registry exists until the store is destroyed.
Standing == rlast.op # "teardown"

\* ~resource_manager at the destruction of g_resource_manager: m_resource is
\* released and ~resource destroys the map, entry by entry in some order.
Teardown ==
    /\ Standing
    /\ \E order \in Orders(DOMAIN m_record) :
         rlast' = RLast("teardown", EmptyName, EmptyName, EmptyName, TRUE,
                        TeardownFrees(m_record, order), 0)
    /\ m_record' = NoRecord
    /\ UNCHANGED <<kind, next, m_recently_used, counter, nonRegVars>>

\* emplace, record and remove while the store lives, then its destruction.
TearNext ==
    \/ Standing /\ CallerAllocate
    \/ \E hint \in Hints : Standing /\ Emplace(hint)
    \/ \E object \in Standalone, hint \in Hints : Standing /\ Record(object, hint)
    \/ \E name \in ArgNames : Standing /\ Remove(name)
    \/ Teardown

SpecTear == RegInit /\ [][TearNext]_vars

\* The lookups by name, among the calls that add entries.
LookupNext ==
    \/ CallerAllocate
    \/ \E hint \in Hints : Emplace(hint)
    \/ \E object \in Standalone, hint \in Hints : Record(object, hint)
    \/ \E name \in ArgNames : GetByName(name)
    \/ \E name \in ArgNames : Retrieve(name)

SpecLookup == RegInit /\ [][LookupNext]_vars

\* The lookup by handle, among the calls that add and remove entries.
FindNext ==
    \/ CallerAllocate
    \/ \E hint \in Hints : Emplace(hint)
    \/ \E object \in Standalone, hint \in Hints : Record(object, hint)
    \/ \E name \in ArgNames : Remove(name)
    \/ \E h \in 0..RegMaxHandle : Find(h)

SpecFind == RegInit /\ [][FindNext]_vars

(***************************************************************************)
(* The name generator called on its own: states::next_*_name(record, hint) *)
(* with a record that changes between the calls by insertions and erasures *)
(* of keys, which is what the registry's add, remove, rename and retrieve  *)
(* do to it.                                                               *)
(***************************************************************************)

\* What n attempts starting at counter c have streamed into ss.
RECURSIVE Streamed(_, _, _)
Streamed(hint, c, n) ==
    IF n = 0 THEN <<>>
             ELSE Streamed(hint, c, n - 1) \o hint \o <<Prefix>> \o Dec(c + n - 1)

\* The keys a record can hold: the hints, and names that look like the
\* generator's candidates.
NameKeys ==
    Hints \cup {Streamed(h, c, n) : h \in Hints, c \in 0..MaxCounter,
                                    n \in 1..(MaxEntries - 1)}

\* A call of the generator of the kind with the record and a hint.
NextNameCall(hint) ==
    /\ counter <= MaxCounter
    /\ LET nn == next_name(m_record, hint, counter) IN
        /\ counter' = nn.counter
        /\ rlast' = RLast("next_name", hint, EmptyName, nn.name, TRUE, <<>>, 0)
        /\ issued' = IF hint \in DOMAIN m_record THEN issued \cup {nn.name} ELSE issued
    /\ UNCHANGED <<kind, next, m_record, nonNameVars>>

\* m_record.insert({name, value})
KeyInsert(name) ==
    /\ name \notin DOMAIN m_record
    /\ Cardinality(DOMAIN m_record) < MaxEntries
    /\ m_record' = Insert(m_record, name, Fresh(kind, next).obj)
    /\ rlast' = RLast("insert", name, EmptyName, EmptyName, TRUE, <<>>, 0)
    /\ UNCHANGED <<kind, next, counter, issued, nonNameVars>>

\* m_record.erase(name)
KeyErase(name) ==
    /\ name \in DOMAIN m_record
    /\ m_record' = Erase(m_record, name)
    /\ rlast' = RLast("erase", name, EmptyName, EmptyName, TRUE, <<>>, 0)
    /\ UNCHANGED <<kind, next, counter, issued, nonNameVars>>

NameInit ==
    /\ kind = "texture"
    /\ next = 0
    /\ RegIdle
    /\ WrapIdle
    /\ GateIdle
    /\ RunIdle
    /\ MeshIdle

NameNext ==
    \/ \E hint \in Hints : NextNameCall(hint)
    \/ \E name \in NameKeys : KeyInsert(name)
    \/ \E name \in NameKeys : KeyErase(name)

SpecName == NameInit /\ [][NameNext]_vars

(***************************************************************************)
(* The generators of all kinds and the registries wired to them.           *)
(***************************************************************************)

\* The prefix each generator was built with.
PrefixOf(g) ==
    CASE g = "vertex_array" -> "generated-vao-"
      [] g = "buffer"       -> "generated-bo-"
      [] g = "camera"       -> "generated-camera-"
      [] g = "mesh"         -> "generated-mesh-"
      [] g = "shader"       -> "generated-shader-"
      [] g = "texture"      -> "generated-texture-"
      [] g = "window"       -> "Generated Window "

\* The counter each generator was built with: next_<g>_name holds g_<g>_ct.
CounterOf(g) == g

\* A wiring that gives the texture registry the generator of the shaders.
WiredGeneratorMixed(k) == IF k = "texture" THEN "shader" ELSE k

\* proxy<Resrc>::proxy: the generator m_next_name forwards to.
WiredGenerator(k) ==
    CASE k = "buffer"       -> "buffer"
      [] k = "camera"       -> "camera"
      [] k = "mesh"         -> "mesh"
      [] k = "shader"       -> "shader"
      [] k = "texture"      -> "texture"
      [] k = "vertex_array" -> "vertex_array"
      [] k = "window"       -> "window"

\* A name of next_name, with the prefix token spelled out for generator g.
Spelled(g, name) ==
    [i \in 1..Len(name) |-> IF name[i] = Prefix THEN PrefixOf(g) ELSE name[i]]

\* The registry of kind k asks m_next_name for a name; its record holds the
\* hint (collides) or is empty.
GenerateIn(k, hint, collides) ==
    LET g == WiredGenerator(k)
        rec == IF collides THEN Insert(NoRecord, hint, Wrapper(Sentinel, FALSE))
                           ELSE NoRecord
        nn == next_name(rec, hint, g_ct[CounterOf(g)])
    IN
    /\ g_ct[CounterOf(g)] < MaxCounter
    /\ g_ct' = [g_ct EXCEPT ![CounterOf(g)] = nn.counter]
    /\ klast' = [kind |-> k, hint |-> hint, collides |-> collides,
                 ret |-> Spelled(g, nn.name)]
    /\ UNCHANGED nonKindVars

KindInit ==
    /\ kind = "texture"
    /\ next = 0
    /\ RegIdle
    /\ WrapIdle
    /\ GateIdle
    /\ RunIdle
    /\ MeshIdle

KindNext ==
    \E k \in AllKinds, hint \in Hints, collides \in BOOLEAN : GenerateIn(k, hint, collides)

SpecKinds == KindInit /\ [][KindNext]_vars

(***************************************************************************)
(* std::call_once and the three gates.  application::application and       *)
(* application::new_window call glfw_initialize, resource_initialize,      *)
(* windows.emplace (whose window constructor calls glfw_initialize again)  *)
(* and glew_initialize, in this order.                                     *)
(***************************************************************************)

\* The statement that follows a stage of a call site.
NextStage(stage) ==
    CASE stage = "check"    -> "set"
      [] stage = "set"      -> "glfw"
      [] stage = "glfw"     -> "resource"
      [] stage = "resource" -> "wglfw"
      [] stage = "wglfw"    -> "emplace"
      [] stage = "emplace"  -> "glew"
      [] stage = "glew"     -> "done"

\* The gate a stage calls.
GateOf(stage) ==
    CASE stage \in {"glfw", "wglfw"} -> "glfw"
      [] stage = "resource" -> "resource"
      [] stage = "glew" -> "glew"

GateStages == {"glfw", "wglfw", "resource", "glew"}

At(stage) == [site |-> "none", stage |-> stage,
              phase |-> IF stage \in GateStages THEN "call" ELSE "-"]

\* The statement a thread moves to when the current one returns normally.
Advance(p) == [At(NextStage(p.stage)) EXCEPT !.site = p.site]

Thrown(p) == [site |-> p.site, stage |-> "thrown", phase |-> "-"]

\* A gate that lets a caller through while another thread runs the setup.
OnceEnterNoWait(flag) ==
    CASE flag = "done" -> "return"
      [] flag = "unset" -> "run"
      [] flag = "active" -> "return"

\* A gate that runs the setup on every call.
OnceEnterAlways(flag) ==
    CASE flag = "done" -> "run"
      [] flag = "unset" -> "run"
      [] flag = "active" -> "wait"

\* std::call_once: what a caller does on finding the flag in this state.
OnceEnter(flag) ==
    CASE flag = "done" -> "return"
      [] flag = "unset" -> "run"
      [] flag = "active" -> "wait"

\* A thread begins application::application() or application::new_window().
Start(t, site) ==
    /\ pc[t].stage = "idle"
    /\ pc' = [pc EXCEPT ![t] = [At(IF site = "application" THEN "check" ELSE "glfw")
                                   EXCEPT !.site = site]]
    /\ UNCHANGED <<once, out, owed, runs, g_resource_manager, windows, seen,
                   g_application_created, glfwUp, nonGateVars>>

\* if (g_application_created) LOG.exception(...)
AppCheck(t) ==
    /\ pc[t].stage = "check"
    /\ pc' = [pc EXCEPT ![t] = IF g_application_created THEN Thrown(@) ELSE Advance(@)]
    /\ UNCHANGED <<once, out, owed, runs, g_resource_manager, windows, seen,
                   g_application_created, glfwUp, nonGateVars>>

\* g_application_created = true
AppSet(t) ==
    /\ pc[t].stage = "set"
    /\ g_application_created' = TRUE
    /\ pc' = [pc EXCEPT ![t] = Advance(@)]
    /\ UNCHANGED <<once, out, owed, runs, g_resource_manager, windows, seen,
                   glfwUp, nonGateVars>>

\* A thread enters std::call_once, or is woken in it when the execution it
\* waited for has ended.
OnceCall(t) ==
    /\ pc[t].phase \in {"call", "wait"}
    /\ LET g == GateOf(pc[t].stage)
           do == OnceEnter(once[g])
       IN
        /\ pc[t].phase = "wait" => do # "wait"
        /\ CASE do = "return" ->
                    /\ pc' = [pc EXCEPT ![t] = Advance(@)]
                    /\ out' = [out EXCEPT ![t][g] = "ok"]
                    /\ UNCHANGED <<once, runs>>
             [] do = "run" ->
                    /\ runs[g] < MaxRuns
                    /\ once' = [once EXCEPT ![g] = "active"]
                    /\ runs' = [runs EXCEPT ![g] = @ + 1]
                    /\ pc' = [pc EXCEPT ![t].phase = "run"]
                    /\ UNCHANGED out
             [] do = "wait" ->
                    /\ pc' = [pc EXCEPT ![t].phase = "wait"]
                    /\ UNCHANGED <<once, runs, out>>
    /\ UNCHANGED <<owed, g_resource_manager, windows, seen, g_application_created,
                   glfwUp, nonGateVars>>

\* The threads blocked in call_once of gate g.
Waiting(g) == {u \in Threads : pc[u].phase = "wait" /\ GateOf(pc[u].stage) = g}

\* The callable throws: call_once leaves the flag unset and the exception
\* leaves the call site.
SetupThrows(t, g) ==
    /\ once' = [once EXCEPT ![g] = "unset"]
    /\ out' = [out EXCEPT ![t][g] = "fail"]
    /\ owed' = [owed EXCEPT ![g] = @ \cup Waiting(g)]
    /\ pc' = [pc EXCEPT ![t] = Thrown(@)]

\* states::g_resource_manager = std::make_unique<resource_manager>()
SetupResource(t) ==
    /\ pc[t].phase = "run"
    /\ pc[t].stage = "resource"
    /\ g_resource_manager' = runs["resource"]
    /\ windows' = 0
    /\ pc' = [pc EXCEPT ![t].phase = "fin"]
    /\ UNCHANGED <<once, out, owed, runs, seen, g_application_created, glfwUp,
                   nonGateVars>>

\* if (!glfw::init()) LOG.exception(...)
SetupGlfw(t, ok) ==
    /\ pc[t].phase = "run"
    /\ pc[t].stage \in {"glfw", "wglfw"}
    /\ IF ok
       THEN /\ glfwUp' = TRUE
            /\ pc' = [pc EXCEPT ![t].phase = "fin"]
            /\ UNCHANGED <<once, out, owed>>
       ELSE /\ SetupThrows(t, "glfw")
            /\ UNCHANGED glfwUp
    /\ UNCHANGED <<runs, g_resource_manager, windows, seen, g_application_created,
                   nonGateVars>>

\* if (glewInit() != GLEW_OK) { glfw::terminate(); LOG.exception(...); }
SetupGlew(t, ok) ==
    /\ pc[t].phase = "run"
    /\ pc[t].stage = "glew"
    /\ IF ok
       THEN /\ pc' = [pc EXCEPT ![t].phase = "fin"]
            /\ UNCHANGED <<once, out, owed, glfwUp>>
       ELSE /\ SetupThrows(t, "glew")
            /\ glfwUp' = FALSE
    /\ UNCHANGED <<runs, g_resource_manager, windows, seen, g_application_created,
                   nonGateVars>>

\* The callable has returned: call_once sets the flag and returns.
OnceFinish(t) ==
    /\ pc[t].phase = "fin"
    /\ LET g == GateOf(pc[t].stage) IN
        /\ once' = [once EXCEPT ![g] = "done"]
        /\ out' = [out EXCEPT ![t][g] = "ok"]
    /\ pc' = [pc EXCEPT ![t] = Advance(@)]
    /\ UNCHANGED <<owed, runs, g_resource_manager, windows, seen,
                   g_application_created, glfwUp, nonGateVars>>

\* states::g_resource_manager->windows.emplace(title, ...): the window is
\* created and recorded, or its constructor calls glfw::terminate() and throws.
EmplaceWindow(t, ok) ==
    /\ pc[t].stage = "emplace"
    /\ IF ok
       THEN /\ windows < MaxWindows
            /\ windows' = windows + 1
            /\ seen' = [seen EXCEPT ![t] = g_resource_manager]
            /\ pc' = [pc EXCEPT ![t] = Advance(@)]
            /\ UNCHANGED glfwUp
       ELSE /\ glfwUp' = FALSE
            /\ pc' = [pc EXCEPT ![t] = Thrown(@)]
            /\ UNCHANGED <<windows, seen>>
    /\ UNCHANGED <<once, out, owed, runs, g_resource_manager, g_application_created,
                   nonGateVars>>

GateInit ==
    /\ kind = "window"
    /\ next = 0
    /\ WrapIdle
    /\ RegIdle
    /\ GateIdle
    /\ RunIdle
    /\ MeshIdle

GateNext ==
    \/ \E t \in Threads, site \in Sites : Start(t, site)
    \/ \E t \in Threads : AppCheck(t)
    \/ \E t \in Threads : AppSet(t)
    \/ \E t \in Threads : OnceCall(t)
    \/ \E t \in Threads : SetupResource(t)
    \/ \E t \in Threads, ok \in BOOLEAN : SetupGlfw(t, ok)
    \/ \E t \in Threads, ok \in BOOLEAN : SetupGlew(t, ok)
    \/ \E t \in Threads : OnceFinish(t)
    \/ \E t \in Threads, ok \in BOOLEAN : EmplaceWindow(t, ok)

SpecGate == GateInit /\ [][GateNext]_vars

(***************************************************************************)
(* application::run() over the windows registry, from the state an         *)
(* application object is in when its constructor has returned.  Close      *)
(* requests reach a window in glfw::poll_events(), which window::update    *)
(* calls; no request is ever withdrawn.  Windows are created between calls *)
(* of run(), not by the callbacks that update runs.                        *)
(***************************************************************************)

\* A loop that is left after its first pass.
AfterSweepOnce(running) == "shutdown"

\* } while (m_running);
AfterSweep(running) == IF running THEN "loop" ELSE "shutdown"

\* window::is_running of the entry named n, given the close flags
IsRunning(n, flags) == m_record[n].handle \notin flags

\* The handles of the registered windows.
WindowHandles == {m_record[n].handle : n \in DOMAIN m_record}

\* create_window(title, ...) outside run()
CreateWindow(hint) ==
    /\ rpc = "idle"
    /\ Emplace(hint)

\* get_current_window() outside run()
GetCurrentWindow ==
    /\ rpc = "idle"
    /\ Recent

\* run() is called: this->startup(); the queue dead_windows is created.
RunStart ==
    /\ rpc = "idle"
    /\ startups < MaxCalls
    /\ startups' = startups + 1
    /\ dead_windows' = <<>>
    /\ rpc' = "loop"
    /\ rlast' = RLast("startup", EmptyName, EmptyName, EmptyName, TRUE, <<>>, 0)
    /\ UNCHANGED <<todo, m_running, should_close, shutdowns>>
    /\ UNCHANGED <<kind, next, m_record, m_recently_used, counter, nonRunVars>>

\* do { m_running = false; and the range-for begins
LoopBegin ==
    /\ rpc = "loop"
    /\ m_running' = FALSE
    /\ todo' = DOMAIN m_record
    /\ rpc' = "for"
    /\ UNCHANGED <<dead_windows, should_close, startups, shutdowns>>
    /\ UNCHANGED <<kind, next, regVars, nonRunVars>>

\* One iteration of the range-for, on the entry named n: win.update(), in
\* which poll_events delivers the close requests of the windows in closing,
\* then the test of win.is_running().  ok of rlast is what is_running
\* returned.
Visit(n, closing) ==
    /\ rpc = "for"
    /\ n \in todo
    /\ should_close' = should_close \cup closing
    /\ dead_windows' = IF IsRunning(n, should_close') THEN dead_windows
                                                       ELSE Append(dead_windows, n)
    /\ m_running' = IF IsRunning(n, should_close') THEN TRUE ELSE m_running
    /\ todo' = todo \ {n}
    /\ rlast' = RLast("update", n, EmptyName, EmptyName, IsRunning(n, should_close'),
                      <<>>, 0)
    /\ UNCHANGED <<rpc, startups, shutdowns>>
    /\ UNCHANGED <<kind, next, m_record, m_recently_used, counter, nonRunVars>>

\* The range-for has visited every entry.
ForEnd ==
    /\ rpc = "for"
    /\ todo = {}
    /\ rpc' = "sweep"
    /\ UNCHANGED <<todo, dead_windows, m_running, should_close, startups, shutdowns>>
    /\ UNCHANGED <<kind, next, regVars, nonRunVars>>

\* windows.remove(dead_windows.front()); dead_windows.pop();
Sweep ==
    /\ rpc = "sweep"
    /\ dead_windows # <<>>
    /\ LET name == Head(dead_windows) IN
        /\ m_record' = Erase(m_record, name)
        /\ m_recently_used' = RecentAfterErase(m_recently_used, name)
        /\ rlast' = RLast("remove", name, EmptyName, EmptyName, TRUE,
                          IF name \in DOMAIN m_record
                          THEN Destroy(kind, m_record[name]) ELSE <<>>, 0)
    /\ dead_windows' = Tail(dead_windows)
    /\ UNCHANGED <<rpc, todo, m_running, should_close, startups, shutdowns>>
    /\ UNCHANGED <<kind, next, counter, nonRunVars>>

\* The queue is empty: the loop condition is tested.
SweepEnd ==
    /\ rpc = "sweep"
    /\ dead_windows = <<>>
    /\ rpc' = AfterSweep(m_running)
    /\ UNCHANGED <<todo, dead_windows, m_running, should_close, startups, shutdowns>>
    /\ UNCHANGED <<kind, next, regVars, nonRunVars>>

\* this->shutdown(); and run() returns.
RunEnd ==
    /\ rpc = "shutdown"
    /\ shutdowns' = shutdowns + 1
    /\ rpc' = "idle"
    /\ rlast' = RLast("shutdown", EmptyName, EmptyName, EmptyName, TRUE, <<>>, 0)
    /\ UNCHANGED <<todo, dead_windows, m_running, should_close, startups>>
    /\ UNCHANGED <<kind, next, m_record, m_recently_used, counter, nonRunVars>>

\* application(title, width, height) has returned: the main window is the
\* one entry of the windows registry, under its title.
RunInit ==
    /\ kind = "window"
    /\ next = 1
    /\ \E title \in Hints :
        /\ m_record = Insert(NoRecord, title, Wrapper(1, TRUE))
        /\ m_recently_used = title
        /\ rlast = RLast("emplace", title, EmptyName, title, TRUE, <<>>, 1)
    /\ counter = 0
    /\ issued = {}
    /\ KindIdle
    /\ WrapIdle
    /\ GateIdle
    /\ RunIdle
    /\ MeshIdle

\* The steps of run().
RunSteps ==
    \/ LoopBegin
    \/ \E n \in DOMAIN m_record, closing \in SUBSET WindowHandles : Visit(n, closing)
    \/ ForEnd
    \/ Sweep
    \/ SweepEnd
    \/ RunEnd

RunNext ==
    \/ \E hint \in Hints : CreateWindow(hint)
    \/ GetCurrentWindow
    \/ RunStart
    \/ LoopBegin
    \/ \E n \in DOMAIN m_record, closing \in SUBSET WindowHandles : Visit(n, closing)
    \/ ForEnd
    \/ Sweep
    \/ SweepEnd
    \/ RunEnd

SpecRun == RunInit /\ [][RunNext]_vars

\* run() is not suspended for ever: a step of it that can be taken is taken.
SpecRunLive == RunInit /\ [][RunNext]_vars /\ WF_vars(RunSteps)

(***************************************************************************)
(* mesh: a vertex_array and two buffers.  The caller's wrappers array,     *)
(* vertices and indices are the slots 1, 2 and 3 of w.                     *)
(***************************************************************************)
OWN_VAO == 1

OWN_VBO == 2

OWN_EBO == 4

OWN_ALL == 7

Masks == 0..OWN_ALL

\* owning & bit
Has(mask, bit) == (mask \div bit) % 2 = 1

nonMeshVars == <<regVars, gateVars, issued, kindVars, runVars>>

\* A member initialiser of mesh(vao, vbo, ebo, index_ct, owning):
\* member(h == 0 ? generate() : h, h == 0 || flag), the member being built
\* by the adopting constructor of its class.
MeshPart(k, h, flag, n) ==
    LET object == IF h = Sentinel THEN n + 1 ELSE h IN
    [obj |-> Wrapper(object, AdoptOwning(k, object, h = Sentinel \/ flag)),
     allocs |-> IF h = Sentinel THEN 1 ELSE 0]

\* mesh(gl::u32 vao, gl::u32 vbo, gl::u32 ebo, index_ct, owning): the
\* members, in the order of their declaration.
MeshOfHandles(vao, vbo, ebo, mask, n) ==
    LET a == MeshPart("vertex_array", vao, Has(mask, OWN_VAO), n)
        v == MeshPart("buffer", vbo, Has(mask, OWN_VAO), n + a.allocs)
        e == MeshPart("buffer", ebo, Has(mask, OWN_EBO), n + a.allocs + v.allocs)
    IN [mesh |-> [live |-> TRUE, m_array |-> a.obj, m_vertices |-> v.obj,
                  m_indices |-> e.obj],
        allocs |-> a.allocs + v.allocs + e.allocs]

\* mesh(vertex_array& array, buffer& vertices, buffer& indices, index_ct,
\* owning): the mesh and what is left in the three wrappers passed.
MeshOfWrappers(array, vertices, indices, mask, n) ==
    LET m == MeshOfHandles(array.handle, vertices.handle, indices.handle, mask, n) IN
    [mesh |-> m.mesh, allocs |-> m.allocs,
     array |-> IF Has(mask, OWN_VAO) THEN [array EXCEPT !.owning = FALSE] ELSE array,
     vertices |-> IF Has(mask, OWN_VBO) THEN [vertices EXCEPT !.owning = FALSE]
                                        ELSE vertices,
     indices |-> IF Has(mask, OWN_EBO) THEN [indices EXCEPT !.owning = FALSE]
                                       ELSE indices]

\* auto m = mesh(vao, vbo, ebo, index_ct, mask) on raw handles
MeshFromHandles(vao, vbo, ebo, mask) ==
    /\ ~m_mesh.live
    /\ LET r == MeshOfHandles(vao, vbo, ebo, mask, next) IN
        /\ next + r.allocs <= MeshMaxHandle
        /\ m_mesh' = r.mesh
        /\ next' = next + r.allocs
        /\ mlast' = [MeshNoOp EXCEPT !.op = "from_handles", !.mask = mask,
                                     !.allocs = r.allocs]
    /\ UNCHANGED <<kind, wrapVars, nonMeshVars>>

\* auto m = mesh(array, vertices, indices, index_ct, mask)
MeshFromWrappers(mask) ==
    /\ ~m_mesh.live
    /\ LET r == MeshOfWrappers(w[1], w[2], w[3], mask, next) IN
        /\ m_mesh' = r.mesh
        /\ w' = [w EXCEPT ![1] = r.array, ![2] = r.vertices, ![3] = r.indices]
        /\ mlast' = [MeshNoOp EXCEPT !.op = "from_wrappers", !.mask = mask,
                                     !.pre = <<w[1], w[2], w[3]>>,
                                     !.allocs = r.allocs]
    /\ UNCHANGED <<kind, next, last, nonMeshVars>>

\* mesh::clear
MeshClear ==
    /\ m_mesh.live
    /\ LET a == Clear("vertex_array", m_mesh.m_array)
           v == Clear("buffer", m_mesh.m_vertices)
           e == Clear("buffer", m_mesh.m_indices)
       IN
        /\ m_mesh' = [m_mesh EXCEPT !.m_array = a.obj, !.m_vertices = v.obj,
                                    !.m_indices = e.obj]
        /\ mlast' = [MeshNoOp EXCEPT !.op = "clear",
                                     !.frees = a.frees \o v.frees \o e.frees]
    /\ UNCHANGED <<kind, next, wrapVars, nonMeshVars>>

\* ~mesh: the members are destroyed in the reverse order of declaration.
MeshDestruct ==
    /\ m_mesh.live
    /\ m_mesh' = NoMesh
    /\ mlast' = [MeshNoOp EXCEPT !.op = "destroy",
                                 !.frees = Destroy("buffer", m_mesh.m_indices)
                                        \o Destroy("buffer", m_mesh.m_vertices)
                                        \o Destroy("vertex_array", m_mesh.m_array)]
    /\ UNCHANGED <<kind, next, wrapVars, nonMeshVars>>

\* The caller holds a vertex_array of handle 1 and buffers of handles 2 and
\* 3, each owning or a view.
MeshInit ==
    /\ kind = "mesh"
    /\ next = 3
    /\ \E o \in [1..3 -> BOOLEAN] :
         w = [i \in Slots |-> IF i <= 3 THEN Wrapper(i, o[i]) ELSE Dead]
    /\ last = NoOp
    /\ RegIdle
    /\ GateIdle
    /\ RunIdle
    /\ MeshIdle

MeshNext ==
    \/ \E vao \in {0, 1}, vbo \in {0, 2}, ebo \in {0, 3}, mask \in Masks :
            MeshFromHandles(vao, vbo, ebo, mask)
    \/ \E mask \in Masks : MeshFromWrappers(mask)
    \/ MeshClear
    \/ MeshDestruct

SpecMesh == MeshInit /\ [][MeshNext]_vars

(***************************************************************************)
(* shader::bind and shader::reload on a shader d.  gl::create_program is   *)
(* the allocate capability, gl::delete_program the free capability.        *)
(***************************************************************************)

\* bind(source_1, type_1, source_2, type_2): m_owning is not assigned.
ShaderBind(d, n) ==
    [obj |-> Wrapper(n + 1, d.owning),
     frees |-> IF d.owning THEN <<d.handle>> ELSE <<>>,
     allocs |-> 1]

\* reload(); ok says whether gltool::read_file found both files.  When it
\* did not, LOG.exception throws out of the handler and the assignment of
\* m_owning is not reached.
ShaderReload(d, n, ok) ==
    LET first == IF d.owning THEN <<d.handle>> ELSE <<>> IN
    IF ok
    THEN LET b == ShaderBind(d, n) IN
         [obj |-> Wrapper(b.obj.handle, TRUE), frees |-> first \o b.frees,
          allocs |-> b.allocs]
    ELSE [obj |-> d, frees |-> first, allocs |-> 0]

Bind(i) ==
    /\ kind = "shader"
    /\ w[i].live
    /\ LET r == ShaderBind(w[i], next) IN
        /\ next + r.allocs <= MaxHandle
        /\ w' = [w EXCEPT ![i] = r.obj]
        /\ next' = next + r.allocs
        /\ last' = [NoOp EXCEPT !.op = "bind", !.dst = i, !.pre = w[i],
                                !.frees = r.frees, !.allocs = r.allocs]
    /\ UNCHANGED <<kind, nonWrapVars>>

Reload(i, ok) ==
    /\ kind = "shader"
    /\ w[i].live
    /\ LET r == ShaderReload(w[i], next, ok) IN
        /\ next + r.allocs <= MaxHandle
        /\ w' = [w EXCEPT ![i] = r.obj]
        /\ next' = next + r.allocs
        /\ last' = [NoOp EXCEPT !.op = "reload", !.dst = i, !.pre = w[i],
                                !.flag = ok, !.frees = r.frees,
                                !.allocs = r.allocs]
    /\ UNCHANGED <<kind, nonWrapVars>>

ShaderInit ==
    /\ kind = "shader"
    /\ next = 0
    /\ WrapIdle
    /\ RegIdle
    /\ GateIdle
    /\ RunIdle
    /\ MeshIdle

ShaderNext ==
    \/ RawAllocate
    \/ \E i \in Slots : ConstructFresh(i)
    \/ \E i \in Slots, h \in Handles, flag \in BOOLEAN : ConstructAdopt(i, h, flag)
    \/ \E i \in Slots : Bind(i)
    \/ \E i \in Slots, ok \in BOOLEAN : Reload(i, ok)
    \/ \E i \in Slots : Destruct(i)

SpecShader == ShaderInit /\ [][ShaderNext]_vars

(***************************************************************************)
(* Properties of the handle wrappers.                                      *)
(***************************************************************************)

\* No two live wrappers own the same (non-null) handle.
SingleOwner ==
    \A i, j \in Slots :
        (i # j /\ w[i].live /\ w[j].live /\ w[i].owning /\ w[j].owning
            /\ w[i].handle # Sentinel) => w[i].handle # w[j].handle

IsMove(l) == l.op \in {"move_ctor", "move_assign"}

\* The operation took the handle of its source operand into another object
\* (a move assignment between wrappers of one handle returns early).
Transferred(l) ==
    /\ IsMove(l)
    /\ l.src # l.dst
    /\ (l.op = "move_ctor" \/ l.pre.handle # l.preSrc.handle)

\* C1: a move construction or move assignment never produces two wrappers
\* that own the same handle, and a clear or destruction of the wrapper that
\* was just moved from calls the free capability zero times.
C1_MoveKeepsSingleOwner ==
    [][ /\ (IsMove(last') /\ SingleOwner) => SingleOwner'
        /\ (Transferred(last)
                /\ last'.op \in {"clear", "destroy"} /\ last'.dst = last.src)
            => last'.frees = <<>> ]_vars

\* C2: the first clear of an owning wrapper frees its handle exactly once and
\* leaves it non-owning; a clear or a destruction that follows a clear of the
\* same wrapper calls the free capability zero times.
C2_ReleaseIdempotent ==
    [][ /\ (last'.op = "clear" /\ last'.pre.owning)
            => (last'.frees = <<last'.pre.handle>> /\ ~w'[last'.dst].owning)
        /\ (last.op = "clear" /\ last'.op \in {"clear", "destroy"}
                /\ last'.dst = last.dst)
            => last'.frees = <<>> ]_vars

\* C9: adopting the null handle allocates a fresh handle and yields an
\* owning wrapper, whatever ownership flag the caller passed.
C9_AdoptSentinelOwns ==
    (last.op = "adopt" /\ last.arg = Sentinel)
        => /\ last.allocs = 1
           /\ w[last.dst].handle = next
           /\ w[last.dst].handle # Sentinel
           /\ w[last.dst].owning

\* C10: adopting a non-null handle h with flag f yields a wrapper of h whose
\* owning flag is f, and calls neither the allocate nor the free capability.
C10_AdoptKeepsFlag ==
    (last.op = "adopt" /\ last.arg # Sentinel)
        => /\ w[last.dst].handle = last.arg
           /\ w[last.dst].owning = last.flag
           /\ last.allocs = 0
           /\ last.frees = <<>>

C10_Witness ==
    /\ last.op = "adopt"
    /\ last.arg # Sentinel
    /\ ~last.flag
    /\ kind = "shader"
    /\ w[last.dst] = Wrapper(last.arg, FALSE)

\* C11: a clear, a destruction or a move assignment passes to the free
\* capability only the handle its wrapper held, and only if that wrapper was
\* owning: a wrapper with owning = false frees nothing in any of the three.
C11_OnlyOwnerFrees ==
    last.op \in {"clear", "destroy", "move_assign"}
        => \A n \in 1..Len(last.frees) :
                last.frees[n] = last.pre.handle /\ last.pre.owning

(***************************************************************************)
(* Properties of the name generator.                                       *)
(***************************************************************************)

\* C12: a call of next_name with a hint that is not a key of the record
\* returns the hint unchanged, the empty string included, and leaves the
\* counter as it was.
C12_FreeHintKept ==
    [][ (rlast'.op = "next_name" /\ rlast'.name \notin DOMAIN m_record)
            => (rlast'.ret = rlast'.name /\ counter' = counter) ]_vars

\* The empty hint was accepted although the record holds other names and the
\* counter has already been used.
C12_Witness ==
    /\ rlast.op = "next_name"
    /\ rlast.name = EmptyName
    /\ rlast.ret = EmptyName
    /\ EmptyName \notin DOMAIN m_record
    /\ m_record # NoRecord
    /\ counter > 0

\* C13: a call of next_name with a hint that is a key of the record returns
\* a name that differs from the hint and is not a key of the record.
C13_CollidingHintFresh ==
    [][ (rlast'.op = "next_name" /\ rlast'.name \in DOMAIN m_record)
            => (rlast'.ret # rlast'.name /\ rlast'.ret \notin DOMAIN m_record) ]_vars

\* The hint collided and so did the first candidate: the call returned at
\* its second attempt.
C13_Witness ==
    /\ rlast.op = "next_name"
    /\ rlast.name \in DOMAIN m_record
    /\ counter >= 2
    /\ Streamed(rlast.name, counter - 2, 1) \in DOMAIN m_record
    /\ rlast.ret = Streamed(rlast.name, counter - 2, 2)

\* C14: the counter never decreases, and a call of next_name with a colliding
\* hint consumes at least one new counter value and returns a name that no
\* earlier call with a colliding hint (the same hint or another) has
\* returned, whatever has been inserted into or erased from the record since.
C14_NamesNeverRepeat ==
    [][ /\ counter' >= counter
        /\ (rlast'.op = "next_name" /\ rlast'.name \in DOMAIN m_record)
            => (rlast'.ret \notin issued /\ counter' > counter) ]_vars

\* A later call with the same colliding hint, made while the name an earlier
\* call returned is not a key of the record, has returned another name.
C14_Witness ==
    /\ rlast.op = "next_name"
    /\ rlast.name \in DOMAIN m_record
    /\ rlast.ret = Streamed(rlast.name, counter - 1, 1)
    /\ \E c \in 0..(counter - 2) :
            /\ Streamed(rlast.name, c, 1) \in issued
            /\ Streamed(rlast.name, c, 1) \notin DOMAIN m_record
    /\ Cardinality(DOMAIN m_record) = 1

\* C16: a name generated in the registry of one kind advances the counter of
\* that kind by one, carries the prefix of that kind, and leaves the counters
\* of all other kinds as they were; a hint that is free changes no counter.
C16_KindsIndependent ==
    [][ \A k \in AllKinds : klast'.kind = k =>
            /\ \A j \in AllKinds \ {k} : g_ct'[j] = g_ct[j]
            /\ klast'.collides
                => /\ g_ct'[k] = g_ct[k] + 1
                   /\ klast'.ret = klast'.hint \o <<PrefixOf(k)>> \o Dec(g_ct[k])
            /\ ~klast'.collides => (g_ct'[k] = g_ct[k] /\ klast'.ret = klast'.hint)
      ]_vars

\* The texture registry has generated a name after the shader and buffer
\* registries had generated theirs, the other counters still at zero.
C16_Witness ==
    /\ klast.kind = "texture"
    /\ klast.collides
    /\ klast.ret = klast.hint \o <<"generated-texture-", "0">>
    /\ g_ct = [k \in AllKinds |->
                IF k \in {"texture", "shader", "buffer"} THEN 1 ELSE 0]

\* C15: the name generated for a colliding hint is hint ++ prefix ++ counter
\* for the counter value the returning attempt consumed, also when earlier
\* attempts of the call collided.
C15_GeneratedForm ==
    [][ (rlast'.op = "next_name" /\ rlast'.name \in DOMAIN m_record)
            => rlast'.ret = rlast'.name \o <<Prefix>> \o Dec(counter' - 1) ]_vars

(***************************************************************************)
(* Properties of the registry's calls that move a resource in or out.      *)
(***************************************************************************)

\* The entries of rec other than name are the entries of old.
OthersKept(old, rec, name) ==
    /\ DOMAIN rec \ {name} = DOMAIN old \ {name}
    /\ \A n \in DOMAIN old \ {name} : rec[n] = old[n]

\* C17: emplace(hint) inserts a freshly constructed resource under the name
\* the name generator gives for the hint, makes that name the recently used
\* one and returns it; the returned name is a key afterwards and the registry
\* has exactly one entry more, the others being as before.
C17_EmplaceAddsOne ==
    [][ rlast'.op = "emplace" =>
            /\ rlast'.ret = next_name(m_record, rlast'.name, counter).name
            /\ rlast'.ret \notin DOMAIN m_record
            /\ rlast'.ret \in DOMAIN m_record'
            /\ Cardinality(DOMAIN m_record') = Cardinality(DOMAIN m_record) + 1
            /\ OthersKept(m_record, m_record', rlast'.ret)
            /\ m_record'[rlast'.ret] = Fresh(kind, next).obj
            /\ m_recently_used' = rlast'.ret ]_vars

\* An emplace whose hint was taken has adopted a generated name.
C17_Witness ==
    /\ rlast.op = "emplace"
    /\ rlast.name \in DOMAIN m_record
    /\ rlast.ret # rlast.name
    /\ Cardinality(DOMAIN m_record) = 2
    /\ m_recently_used = rlast.ret

\* C18: after record(value, hint) the entry under the returned name wraps the
\* handle of the caller's value and is owning exactly if that value was
\* owning before the call; the caller's value still names the handle and is
\* not owning; the free capability was not called.
C18_RecordTransfers ==
    rlast.op = "record" =>
        /\ rlast.ret \in DOMAIN m_record
        /\ m_record[rlast.ret].handle = rlast.pre.handle
        /\ m_record[rlast.ret].owning = rlast.pre.owning
        /\ rlast.obj.handle = rlast.pre.handle
        /\ ~rlast.obj.owning
        /\ rlast.frees = <<>>

\* An owning value has been recorded under a generated name.
C18_Witness ==
    /\ rlast.op = "record"
    /\ rlast.pre.owning
    /\ rlast.pre.handle # Sentinel
    /\ rlast.ret # rlast.name
    /\ m_record[rlast.ret] = rlast.pre

\* C19: retrieve(name) of a present name erases the entry and nothing else,
\* returns a value with the entry's handle and the entry's owning flag, does
\* not call the free capability, and resets recently_used if and only if it
\* was name.
C19_RetrieveHandsOver ==
    [][ (rlast'.op = "retrieve" /\ rlast'.name \in DOMAIN m_record) =>
            /\ rlast'.ok
            /\ rlast'.name \notin DOMAIN m_record'
            /\ OthersKept(m_record, m_record', rlast'.name)
            /\ rlast'.obj.handle = m_record[rlast'.name].handle
            /\ rlast'.obj.owning = m_record[rlast'.name].owning
            /\ rlast'.frees = <<>>
            /\ m_recently_used' = IF m_recently_used = rlast'.name
                                  THEN EmptyName ELSE m_recently_used ]_vars

\* The recently used entry, an owning one, has been retrieved and another
\* entry stays.
C19_Witness ==
    /\ rlast.op = "retrieve"
    /\ rlast.ok
    /\ rlast.name # EmptyName
    /\ rlast.obj.owning
    /\ rlast.obj.handle # Sentinel
    /\ m_recently_used = EmptyName
    /\ EmptyName \notin DOMAIN m_record
    /\ m_record # NoRecord

\* C20: record(value, hint) adds one entry under the adopted name, and a
\* retrieve of the adopted name right after it returns a value with the
\* handle of the recorded value and leaves the entries the registry had
\* before the record (for every hint, the empty one included).
C20_RecordRetrieveRoundTrip ==
    [][ /\ rlast'.op = "record" =>
            /\ rlast'.ret \notin DOMAIN m_record
            /\ DOMAIN m_record' = DOMAIN m_record \cup {rlast'.ret}
            /\ OthersKept(m_record, m_record', rlast'.ret)
        /\ (rlast.op = "record" /\ rlast'.op = "retrieve" /\ rlast'.name = rlast.ret) =>
            /\ rlast'.ok
            /\ rlast'.undo
            /\ rlast'.obj.handle = rlast.pre.handle
            /\ rlast.ret \notin DOMAIN m_record'
            /\ OthersKept(m_record, m_record', rlast.ret) ]_vars

\* A value recorded with the empty hint, which was taken, has been retrieved
\* under its generated name by the next call.
C20_Witness ==
    /\ rlast.op = "retrieve"
    /\ rlast.undo
    /\ counter > 0
    /\ rlast.name = <<Prefix>> \o Dec(counter - 1)
    /\ EmptyName \in DOMAIN m_record
    /\ rlast.obj.handle # Sentinel

(***************************************************************************)
(* Properties of the registry's recently used name.                        *)
(***************************************************************************)

\* C3: in every state reachable by any sequence of registry operations, a
\* recently used name that is not absent (not the empty string) is a key of
\* the registry's entries.
C3_RecentIsKey ==
    m_recently_used # EmptyName => m_recently_used \in DOMAIN m_record

\* C4: after any sequence of emplace, record and remove calls the recently
\* used name is absent or a key of the registry, and an emplace or record
\* leaves it naming the entry it has just inserted.
C4_NoDanglingCache ==
    /\ m_recently_used \in DOMAIN m_record \cup {EmptyName}
    /\ rlast.op \in {"emplace", "record"}
        => (m_recently_used = rlast.ret /\ rlast.ret \in DOMAIN m_record)

\* A remove of the recently used entry, other entries staying, has reset the name.
C4_Witness ==
    /\ rlast.op = "remove"
    /\ rlast.name # EmptyName
    /\ rlast.frees # <<>>
    /\ m_record # NoRecord
    /\ EmptyName \notin DOMAIN m_record
    /\ m_recently_used = EmptyName

(***************************************************************************)
(* Properties of the initialization gates.                                 *)
(***************************************************************************)

\* C5: for each gate, under any interleaving of concurrent first-time
\* callers, the setup routine is executed at most once, and a gate that is
\* done has executed it exactly once.
C5_SetupRunsOnce ==
    \A g \in Gates : /\ runs[g] <= 1
                     /\ once[g] = "done" => runs[g] = 1

\* C6: when the one execution of a gate's setup succeeded, every caller that
\* has returned observed success; and no caller that awaited an execution
\* that failed returns normally from the gate.
C6_SameOutcome ==
    \A g \in Gates : \A t \in Threads :
        /\ (runs[g] = 1 /\ once[g] = "done") => out[t][g] \in {"none", "ok"}
        /\ t \in owed[g] => out[t][g] # "ok"

\* C7: whenever a caller has returned from resource_initialize, the single
\* execution of the setup has completed and the store pointer is non-null.
C7_ReturnAfterSetup ==
    \A t \in Threads :
        out[t]["resource"] = "ok"
            => /\ once["resource"] = "done"
               /\ runs["resource"] = 1
               /\ g_resource_manager # 0

\* A caller has returned from resource_initialize while another thread, which
\* found the setup running, is still blocked in the gate.
C7_Witness ==
    \E t \in Threads, u \in Threads :
        /\ t # u
        /\ out[t]["resource"] = "ok"
        /\ pc[u].stage = "resource" /\ pc[u].phase = "wait"
        /\ g_resource_manager # 0

\* C8: the store is created once whatever the order of the call sites: the
\* setup of resource_initialize runs at most once, a store that exists is
\* never replaced, its windows registry loses no entry, and all callers
\* emplace into the same store.
C8_StoreCreatedOnce ==
    [][ /\ runs'["resource"] <= 1
        /\ g_resource_manager # 0
            => (g_resource_manager' = g_resource_manager /\ windows' >= windows)
        /\ \A t \in Threads, u \in Threads :
            (seen'[t] # 0 /\ seen'[u] # 0) => seen'[t] = seen'[u] ]_vars

\* The constructor of application and new_window, on two threads, have each
\* emplaced a window into the store.
C8_Witness ==
    \E t \in Threads, u \in Threads :
        /\ pc[t].site = "application" /\ pc[u].site = "new_window"
        /\ seen[t] = g_resource_manager /\ seen[u] = g_resource_manager
        /\ g_resource_manager # 0
        /\ windows = 2

\* C21: get by name and retrieve of a name that is not a key fail with the
\* "No such resource" exception, and the failed call leaves the entries and
\* the recently used name as they were: nothing is inserted under the name,
\* nothing is allocated or freed.
C21_MissingNameFails ==
    [][ (rlast'.op \in {"get", "retrieve"} /\ rlast'.name \notin DOMAIN m_record) =>
            /\ ~rlast'.ok
            /\ rlast'.err = NoSuchResource
            /\ m_record' = m_record
            /\ m_recently_used' = m_recently_used
            /\ next' = next
            /\ rlast'.frees = <<>> ]_vars

\* A lookup of a missing name has failed while the registry holds another
\* entry, which is not the recently used one.
C21_Witness ==
    /\ rlast.op \in {"get", "retrieve"}
    /\ rlast.err = NoSuchResource
    /\ rlast.name \notin DOMAIN m_record
    /\ m_record # NoRecord
    /\ m_recently_used = EmptyName

\* An entry is touched by a call that makes it the recently used one.
Touches == {"emplace", "record", "get", "find"}

\* C22: recent() called right after a call that touched an entry (emplace,
\* record, get by name, find hit) returns that entry, whatever its name, the
\* empty string included.
C22_RecentIsLastTouched ==
    [][ (rlast'.op = "recent" /\ rlast.op \in Touches /\ rlast.ok) =>
            /\ rlast'.ok
            /\ rlast'.ret = rlast.ret ]_vars

\* C23: recent() on a registry without entries fails with "No resources" and
\* with no other failure, and a call of recent() that succeeds returns an
\* entry of the registry.
C23_EmptyRecentFails ==
    [][ rlast'.op = "recent" =>
            /\ m_record = NoRecord => (~rlast'.ok /\ rlast'.err = NoResources)
            /\ rlast'.ok => rlast'.ret \in DOMAIN m_record' ]_vars

\* C24: remove(name) of a present name erases that entry and no other, the
\* entry's destructor passes its handle to the free capability exactly once
\* if the entry was owning and not at all otherwise, and recently_used is
\* cleared if it was name and is unchanged otherwise.
C24_RemoveReleases ==
    [][ (rlast'.op = "remove" /\ rlast'.name \in DOMAIN m_record) =>
            /\ rlast'.frees = IF m_record[rlast'.name].owning
                              THEN <<m_record[rlast'.name].handle>> ELSE <<>>
            /\ rlast'.name \notin DOMAIN m_record'
            /\ OthersKept(m_record, m_record', rlast'.name)
            /\ m_recently_used' = IF m_recently_used = rlast'.name
                                  THEN EmptyName ELSE m_recently_used ]_vars

\* An owning entry that was not the recently used one has been removed and
\* its handle freed; another entry, the recently used one, is still there.
C24_Witness ==
    /\ rlast.op = "remove"
    /\ Len(rlast.frees) = 1
    /\ rlast.name \notin DOMAIN m_record
    /\ m_recently_used \in DOMAIN m_record
    /\ m_recently_used # rlast.name

\* C25: rename(old, new) of an absent old returns false and changes nothing;
\* of a present old it returns true, after it old is not a key unless it is
\* new, new is a key whose entry has the handle and the owning flag that were
\* stored under old, and recently_used is new if it was old.
C25_RenameMoves ==
    [][ rlast'.op = "rename" =>
            IF rlast'.name \notin DOMAIN m_record
            THEN /\ ~rlast'.ok
                 /\ m_record' = m_record
                 /\ m_recently_used' = m_recently_used
            ELSE /\ rlast'.ok
                 /\ rlast'.name # rlast'.arg => rlast'.name \notin DOMAIN m_record'
                 /\ rlast'.arg \in DOMAIN m_record'
                 /\ m_record'[rlast'.arg].handle = m_record[rlast'.name].handle
                 /\ m_record'[rlast'.arg].owning = m_record[rlast'.name].owning
                 /\ m_recently_used = rlast'.name => m_recently_used' = rlast'.arg ]_vars

FreedTimes(frees, h) == Cardinality({i \in DOMAIN frees : frees[i] = h})

\* The entries of rec that own handle h.
OwnersOf(rec, h) == {n \in DOMAIN rec : rec[n].owning /\ rec[n].handle = h}

C29_AtLeastOneWindow ==
    /\ m_record # NoRecord
    /\ rlast.op = "recent" => rlast.ok

\* A step of the range-for: one window has been updated.
Updated == todo' # todo /\ todo' \subseteq todo

\* Every registered window has its close flag set.
AllStopped == \A n \in DOMAIN m_record : ~IsRunning(n, should_close)

PastCheck ==
    {t \in Threads : /\ pc[t].site = "application"
                     /\ pc[t].stage \notin {"idle", "check", "thrown"}}

\* C31: at most one application object is created per process: once one
\* constructor has passed the test of g_application_created, every other
\* attempt fails there, so no two constructors are ever past it.
C31_OneApplication == Cardinality(PastCheck) <= 1

\* C32: a fresh construction (vertex_array(), buffer(type), or the adoption
\* of the sentinel) calls the allocate capability exactly once, and the
\* wrapper owns the one handle that call returned: no allocated handle is
\* left without an owner.
C32_FreshAllocatesOnce ==
    [][ (\/ last'.op = "fresh" /\ kind \in {"vertex_array", "buffer"}
         \/ last'.op = "adopt" /\ last'.arg = Sentinel) =>
            /\ last'.allocs = 1
            /\ next' = next + 1
            /\ w'[last'.dst] = Wrapper(next + 1, TRUE) ]_vars

\* C33: a move assignment between two wrappers that hold different handles
\* frees the target's previous handle exactly once if the target was owning
\* and frees nothing otherwise, leaves the target with the source's handle
\* and the source's former owning flag, and leaves the source non-owning,
\* for every wrapper kind.
C33_MoveAssignTransfers ==
    [][ (/\ last'.op = "move_assign"
         /\ last'.dst # last'.src
         /\ last'.pre.handle # last'.preSrc.handle) =>
            /\ last'.frees = IF last'.pre.owning THEN <<last'.pre.handle>> ELSE <<>>
            /\ w'[last'.dst].handle = last'.preSrc.handle
            /\ w'[last'.dst].owning = last'.preSrc.owning
            /\ ~w'[last'.src].owning ]_vars

\* The caller's wrappers and the members of the mesh built from them, by
\* part: 1 the vertex array, 2 the vertex buffer, 3 the index buffer.
MeshParts == <<m_mesh.m_array, m_mesh.m_vertices, m_mesh.m_indices>>

PartBits == <<OWN_VAO, OWN_VBO, OWN_EBO>>

\* C34: a mesh built from three wrappers and an owning mask keeps one owner
\* per handle: each member is owning exactly when the wrapper passed for it
\* was owning and its bit of the mask is set, in which case the wrapper is
\* left non-owning; otherwise the wrapper keeps its flag.
C34_MeshSingleOwner ==
    [][ mlast'.op = "from_wrappers" =>
            \A i \in 1..3 :
                /\ MeshParts'[i].owning
                    = (mlast'.pre[i].owning /\ Has(mlast'.mask, PartBits[i]))
                /\ MeshParts'[i].handle = mlast'.pre[i].handle
                /\ w'[i].owning = (mlast'.pre[i].owning /\ ~MeshParts'[i].owning)
                /\ ~(MeshParts'[i].owning /\ w'[i].owning) ]_vars

\* C35: bind and reload on a shader that owns a program p pass p to the free
\* capability exactly once and leave the shader owning a newly created
\* program; on a shader that does not own its program they never free it
\* and never leave a newly created program in a shader that does not own it.
C35_RebuildFreesOnce ==
    [][ last'.op \in {"bind", "reload"} =>
            LET p == last'.pre.handle
                after == w'[last'.dst] IN
            /\ (last'.pre.owning /\ p # Sentinel) =>
                    /\ last'.frees = <<p>>
                    /\ last'.allocs = 1
                    /\ after = Wrapper(next', TRUE)
            /\ ~last'.pre.owning =>
                    /\ last'.frees = <<>>
                    /\ last'.allocs = 1 => after = Wrapper(next', TRUE) ]_vars

\* C36: rename(name, name) with name present leaves the registry as it was:
\* the entry is still under name with the same handle and owning flag, no
\* handle is freed, the number of entries is unchanged and the call returns
\* true.
C36_RenameSelfKeeps ==
    [][ (/\ rlast'.op = "rename"
         /\ rlast'.name = rlast'.arg
         /\ rlast'.name \in DOMAIN m_record) =>
            /\ rlast'.ok
            /\ rlast'.frees = <<>>
            /\ Cardinality(DOMAIN m_record') = Cardinality(DOMAIN m_record)
            /\ rlast'.name \in DOMAIN m_record'
            /\ m_record'[rlast'.name] = m_record[rlast'.name] ]_vars

\* C37: emplace and record, whatever the hint (a present key included),
\* leave every entry that was in the registry under its name with its
\* handle and owning flag, and free the handle of none of them.
C37_InsertKeepsEntries ==
    [][ rlast'.op \in {"emplace", "record"} =>
            \A n \in DOMAIN m_record :
                /\ n \in DOMAIN m_record'
                /\ m_record'[n] = m_record[n]
                /\ \A k \in 1..Len(rlast'.frees) :
                        rlast'.frees[k] # m_record[n].handle ]_vars

\* An emplace or record whose hint was the key of an owning entry: the new
\* entry went under another name and the entry under the hint is in place.
C37_Witness ==
    /\ rlast.op \in {"emplace", "record"}
    /\ rlast.ret # rlast.name
    /\ rlast.name \in DOMAIN m_record
    /\ rlast.ret \in DOMAIN m_record
    /\ m_record[rlast.name].owning
    /\ m_record[rlast.name].handle # Sentinel

\* C38: find(handle) and find(object) return the empty string only when no
\* entry of the registry wraps the given handle, in every registry state,
\* one with an entry recorded under the empty name included.
C38_EmptyMeansNoMatch ==
    [][ (/\ rlast'.op \in {"find", "find_value"}
         /\ rlast'.ret = EmptyName) =>
            \A n \in DOMAIN m_record : m_record[n].handle # rlast'.resrc ]_vars

=============================================================================
